---- MODULE Spec2Model ----
(***************************************************************************)
(* A model of the circular pack chart of jialoy/d3-angular:                *)
(*   - the quadrant layout of the region circles                           *)
(*     (CircularPackChart.positionRegionCircles / calculateOptimalPositions)*)
(*   - the label fitting (addTextLabels / processWordForFit)               *)
(*   - the side drawer (createDrawer / openDrawer / closeDrawer)            *)
(*   - the host component (toggle, render, resize debounce)                *)
(*   - the chart's hierarchy under render, resize and clear.               *)
(*                                                                         *)
(* Numbers.  The code computes in IEEE doubles.  The model computes in     *)
(* fixed point: a length is an integer number of 1/Res pixels, a square    *)
(* root is rounded down, a quotient is rounded towards zero.               *)
(***************************************************************************)
EXTENDS Integers, Sequences, FiniteSets, TLC

VARIABLES
    \* ---- layout (positionRegionCircles, calculateOptimalPositions)
    packWidth,          \* packWidth argument, in pixels
    packHeight,         \* packHeight argument, in pixels
    regionRadius,       \* region name -> node.r, in pixels (the domain is regionNodes)
    descParent,         \* descendant id -> its parent (a region name or a descendant id)
    nodeXY,             \* node (region or descendant) -> [x, y]: the node's x and y fields
    packedXY,           \* the value of nodeXY on entry (what d3.pack produced)
    originalPositions,  \* region -> [x, y] (the Map of line 828)
    positions,          \* region -> [x, y] (the Map of line 915)
    iteration,          \* the loop variable of line 979
    totalMovement,      \* totalMovement of the last iteration run
    lpc,                \* where positionRegionCircles is
    \* ---- labels (addTextLabels, processWordForFit)
    fitCall,            \* the last direct call of processWordForFit: arguments and result
    lblName,            \* d.data.name of the leaf being labelled
    lblRadius,          \* d.r of the leaf being labelled, in pixels
    lines,              \* lines of line 679
    wordIdx,            \* the loop variable i of line 681 (0-based)
    emitted,            \* the lines written to the text element
    tpc,                \* where addTextLabels is
    \* ---- side drawer (createDrawer, openDrawer, closeDrawer) and what it needs of
    \* ---- the chart
    svgRect,            \* TRUE when the svg holds the .svg-viewbox-rect element
    leafBound,          \* TRUE when the leaves of the svg carry a click handler
    setupPending,       \* number of pending 100 ms setupInteractions timers
    viewSize,           \* the size of the container (an index)
    docDrawers,         \* the .drawer elements of the document, in document order
    docOverlays,        \* the .drawer-overlay elements of the document, in document order
    drawerContent,      \* .drawer element of the document -> the data it shows
    drawerGeom,         \* .drawer element of the document -> the size it is laid out for
    drawerContainer,    \* this.drawerContainer: a .drawer element, or Null
    closeTimers,        \* the pending 300 ms timers of closeDrawer, oldest first
    escBound,           \* TRUE when body carries the keydown.drawer listener
    wanted,             \* the data of the last leaf click, None after a close request
    openedOver,         \* TRUE when the last event was a leaf click with a drawer in the document
    closeAsked,         \* TRUE after a close request made with a drawer in the document
    \* ---- the component (CircularPackComponent) and the interactions module
    phase,              \* "loading" until initialiseChart has the data, then "live"
    isDestroyed,        \* TRUE once ngOnDestroy has run on the instance
    compKey,            \* this.currentValueKey of the component
    modKey,             \* currentValueKey of the interactions module
    chartKey,           \* config.valueKey of the last chart.render, None before it and after clear
    toggleBound,        \* TRUE when the toggle of the svg carries its click handlers
    observing,          \* TRUE when the ResizeObserver is installed and connected
    timers,             \* the pending 100 ms timers, oldest first: [kind, id, left]
    debounceTimer,      \* this.debounceTimer: a timer id, or 0 for undefined
    ev,                 \* what the last event handler did (toggle clicks)
    notifications,      \* number of resize notifications that have arrived (capped at 2)
    gapsOK,             \* TRUE while each notification came < 100 ms after the one before
    sinceNotify,        \* ticks since the last resize notification (capped)
    resizeRuns,         \* number of chart.resize calls made by handleResize (capped at 2)
    ranAt,              \* sinceNotify when handleResize last ran
    svgContent,         \* what the svg holds: "empty", "partial" (a render that threw) or "chart"
    handlers,           \* click handlers on the toggle click area and on each leaf of the svg
    \* ---- the chart's hierarchy (render, resize, clear)
    chGroup,            \* TRUE when this.group is not null
    chNodes,            \* this.nodes: node id -> [data, value, parent, x, y, r]
    chViewBox,          \* the viewBox attribute of the svg: <<width, height>>, <<0, 0>> when not set
    chToggle,           \* the metric the toggle of the svg shows, None without a toggle
    chOp,               \* the last operation on the chart
    chPrev,             \* the chart before the last operation
    docTooltips         \* the number of .tooltip elements in the body of the document

layoutVars == <<packWidth, packHeight, regionRadius, descParent, nodeXY, packedXY,
                originalPositions, positions, iteration, totalMovement, lpc>>

textVars == <<fitCall, lblName, lblRadius, lines, wordIdx, emitted, tpc>>

drawerVars == <<svgRect, leafBound, setupPending, viewSize, docDrawers, docOverlays,
                drawerContent, drawerGeom, drawerContainer, closeTimers, escBound,
                wanted, openedOver, closeAsked>>

compVars == <<phase, isDestroyed, compKey, modKey, chartKey, toggleBound, observing,
              timers, debounceTimer, ev, notifications, gapsOK, sinceNotify, resizeRuns, ranAt,
              svgContent, handlers>>

chartVars == <<chGroup, chNodes, chViewBox, chToggle, chOp, chPrev, docTooltips>>

vars == <<layoutVars, textVars, drawerVars, compVars, chartVars>>

\* what the layout code, the label code, the drawer code, the component and the
\* hierarchy code leave alone
notLayout == <<textVars, drawerVars, compVars, chartVars>>
notText == <<layoutVars, drawerVars, compVars, chartVars>>
notDrawer == <<layoutVars, textVars, compVars, chartVars>>
notComp == <<layoutVars, textVars, drawerVars, chartVars>>
notChart == <<layoutVars, textVars, drawerVars, compVars>>

-----------------------------------------------------------------------------
(* Bounds of the model *)

\* sub-pixel resolution of the fixed-point arithmetic: units per pixel
Res == 4
\* region radii are drawn from {0, RadiusStepPx, ..., MaxRadiusIdx * RadiusStepPx}
MaxRadiusIdx == 3
\* a word handed to processWordForFit directly has at most MaxWordLen characters
MaxWordLen == 3
\* a leaf name has at most MaxNameLen characters
MaxNameLen == 5
\* at most MaxCloseTimers timers of closeDrawer are pending at a time
MaxCloseTimers == 3
\* at most MaxSetupTimers timers of renderChart are pending at a time
MaxSetupTimers == 2
\* the clock of the component advances in steps of 100 / TicksPerDelay milliseconds
TicksPerDelay == 3
\* renders are followed until the document holds MaxTooltips tooltip elements
MaxTooltips == 3

RadiusStepPx == 50

-----------------------------------------------------------------------------
(* Arithmetic helpers *)

Abs(a) == IF a < 0 THEN -a ELSE a
Max(a, b) == IF a >= b THEN a ELSE b
Min(a, b) == IF a <= b THEN a ELSE b

\* quotient rounded towards zero (the model's stand-in for a double division)
QuotT(a, b) == IF a >= 0 THEN a \div b ELSE -((-a) \div b)

RECURSIVE SqrtSearch(_, _, _)
SqrtSearch(n, lo, hi) ==
    IF lo >= hi THEN lo
    ELSE LET mid == (lo + hi + 1) \div 2
         IN IF mid * mid <= n THEN SqrtSearch(n, mid, hi)
                              ELSE SqrtSearch(n, lo, mid - 1)

\* Math.sqrt, rounded down to a whole unit
Sqrt(n) == SqrtSearch(n, 0, 20000)

RECURSIVE SumOver(_, _)
SumOver(S, f) ==
    IF S = {} THEN 0
    ELSE LET e == CHOOSE e \in S : TRUE
         IN f[e] + SumOver(S \ {e}, f)

-----------------------------------------------------------------------------
(* calculateOptimalPositions: constants *)

margin == 20
maxIterations == 50
forceStrength == 2
bufferDist == 30
paddingDist == 5

QuadrantNames == {"top", "bottom", "left", "right"}

\* the quadrants table of positionRegionCircles
quadrants ==
    [n \in {"Northern Europe", "Western Europe", "Eastern Europe", "Southern Europe"} |->
        CASE n = "Northern Europe" -> "top"
          [] n = "Western Europe"  -> "left"
          [] n = "Eastern Europe"  -> "right"
          [] n = "Southern Europe" -> "bottom"]

RegionNames == DOMAIN quadrants

\* centreX and centreY, in units
centreX == (packWidth * Res) \div 2
centreY == (packHeight * Res) \div 2

\* a table that gives every quadrant the bounds of "top"
topBoundsOnly(q) ==
    [centerX |-> centreX, centerY |-> centreY \div 2,
     maxX |-> (packWidth - margin) * Res, maxY |-> centreY - margin * Res,
     minX |-> margin * Res, minY |-> margin * Res]

\* quadrantBounds[q], in units
quadrantBounds(q) ==
    CASE q = "top" ->
           [centerX |-> centreX, centerY |-> centreY \div 2,
            maxX |-> (packWidth - margin) * Res, maxY |-> centreY - margin * Res,
            minX |-> margin * Res, minY |-> margin * Res]
      [] q = "bottom" ->
           [centerX |-> centreX, centerY |-> (centreY * 3) \div 2,
            maxX |-> (packWidth - margin) * Res, maxY |-> (packHeight - margin) * Res,
            minX |-> margin * Res, minY |-> centreY + margin * Res]
      [] q = "left" ->
           [centerX |-> centreX \div 2, centerY |-> centreY,
            maxX |-> centreX - margin * Res, maxY |-> (packHeight - margin) * Res,
            minX |-> margin * Res, minY |-> margin * Res]
      [] q = "right" ->
           [centerX |-> (centreX * 3) \div 2, centerY |-> centreY,
            maxX |-> (packWidth - margin) * Res, maxY |-> (packHeight - margin) * Res,
            minX |-> centreX + margin * Res, minY |-> margin * Res]

\* regions (line 906): the region nodes, by name
regions == DOMAIN regionRadius

\* region.radius, in units
RadiusOf(n) == regionRadius[n] * Res

\* requiredDistance of a pair, in units
requiredDistance(n1, n2) == RadiusOf(n1) + RadiusOf(n2) + bufferDist * Res

\* the square of the centre distance of two positions
Dist2(p1, p2) == (p1.x - p2.x) * (p1.x - p2.x) + (p1.y - p2.y) * (p1.y - p2.y)

\* the force the pair (n1, n2) puts on n1 (n2 gets the opposite), lines 999-1016
pairForce(pos, n1, n2) ==
    LET dx == pos[n1].x - pos[n2].x
        dy == pos[n1].y - pos[n2].y
        distance == Sqrt(dx * dx + dy * dy)
    IN IF distance > 0
       THEN LET deficit == Max(0, requiredDistance(n1, n2) - distance)
            IN [fx |-> QuotT(dx * deficit * forceStrength, distance * 2),
                fy |-> QuotT(dy * deficit * forceStrength, distance * 2)]
       ELSE [fx |-> 0, fy |-> 0]

\* forces.get(n) after the pair loop of lines 991-1027
forceOn(pos, n) ==
    [fx |-> SumOver(regions \ {n}, [m \in regions \ {n} |-> pairForce(pos, n, m).fx]),
     fy |-> SumOver(regions \ {n}, [m \in regions \ {n} |-> pairForce(pos, n, m).fy])]

\* a clamp that takes the minimum last
clampMinLast(lo, hi, v) == Min(hi, Max(lo, v))

\* the clamp of lines 1042-1049
clamp(lo, hi, v) == Max(lo, Min(hi, v))

\* the new position of region n (lines 1031-1052)
newPosition(pos, n) ==
    LET force == forceOn(pos, n)
        bounds == quadrantBounds(quadrants[n])
        effectiveRadius == RadiusOf(n) + paddingDist * Res
    IN [x |-> clamp(bounds.minX + effectiveRadius, bounds.maxX - effectiveRadius,
                    pos[n].x + force.fx),
        y |-> clamp(bounds.minY + effectiveRadius, bounds.maxY - effectiveRadius,
                    pos[n].y + force.fy)]

\* movement of region n in one iteration (lines 1055-1056)
movement(old, new, n) == Abs(new[n].x - old[n].x) + Abs(new[n].y - old[n].y)

\* a convergence test with a threshold of 100 pixels
convergedAt100(total) == total < 100 * Res

\* the convergence test of line 1061 (1 pixel is Res units)
converged(total) == total < 1 * Res

-----------------------------------------------------------------------------
(* positionRegionCircles *)

Descendants == DOMAIN descParent

RECURSIVE isDescendantOf(_, _)
isDescendantOf(node, ancestor) ==
    IF node \notin Descendants THEN FALSE
    ELSE IF descParent[node] = ancestor THEN TRUE
    ELSE isDescendantOf(descParent[node], ancestor)

\* a || b on numbers: b when a is 0 (or NaN, which the model does not have)
OrElse(a, b) == IF a = 0 THEN b ELSE a

\* lines 829-834
originalOf(n) == [x |-> OrElse(nodeXY[n].x, centreX), y |-> OrElse(nodeXY[n].y, centreY)]

\* lines 967-973: every region starts at the centre of its quadrant
seedOf(n) == [x |-> quadrantBounds(quadrants[n]).centerX,
              y |-> quadrantBounds(quadrants[n]).centerY]

\* lines 827-834 and 899-977: up to the first test of the loop
Seed ==
    /\ lpc = "start"
    /\ regions \subseteq DOMAIN quadrants
    /\ originalPositions' = [n \in regions |-> originalOf(n)]
    /\ positions' = [n \in regions |-> seedOf(n)]
    /\ iteration' = 0
    /\ lpc' = "loop"
    /\ UNCHANGED <<packWidth, packHeight, regionRadius, descParent, nodeXY, packedXY,
                   totalMovement>>
    /\ UNCHANGED notLayout

\* the seeding of a region whose name is no key of the quadrants map: region.quadrant
\* is undefined (line 909), so is bounds (line 968), and reading bounds.centerX
\* (line 970) throws a TypeError; the positions map is lost with the call
SeedThrows ==
    /\ lpc = "start"
    /\ \E n \in regions : n \notin DOMAIN quadrants
    /\ lpc' = "threw"
    /\ UNCHANGED <<packWidth, packHeight, regionRadius, descParent, nodeXY, packedXY,
                   originalPositions, positions, iteration, totalMovement>>
    /\ UNCHANGED notLayout

\* a loop body without the break of line 1061
IterateNoBreak ==
    /\ lpc = "loop"
    /\ iteration < maxIterations
    /\ LET new == [n \in regions |-> newPosition(positions, n)]
       IN /\ positions' = new
          /\ totalMovement' = SumOver(regions, [n \in regions |-> movement(positions, new, n)])
    /\ lpc' = "loop"
    /\ iteration' = iteration + 1
    /\ UNCHANGED <<packWidth, packHeight, regionRadius, descParent, nodeXY, packedXY,
                   originalPositions>>
    /\ UNCHANGED notLayout

\* one run of the loop body, lines 979-1064
Iterate ==
    /\ lpc = "loop"
    /\ iteration < maxIterations
    /\ LET new == [n \in regions |-> newPosition(positions, n)]
           total == SumOver(regions, [n \in regions |-> movement(positions, new, n)])
       IN /\ positions' = new
          /\ totalMovement' = total
          /\ IF converged(total)
             THEN /\ lpc' = "returned"
                  /\ iteration' = iteration
             ELSE /\ lpc' = "loop"
                  /\ iteration' = iteration + 1
    /\ UNCHANGED <<packWidth, packHeight, regionRadius, descParent, nodeXY, packedXY,
                   originalPositions>>
    /\ UNCHANGED notLayout

\* the loop test fails: line 979 then 1066
LoopExit ==
    /\ lpc = "loop"
    /\ iteration >= maxIterations
    /\ lpc' = "returned"
    /\ UNCHANGED <<packWidth, packHeight, regionRadius, descParent, nodeXY, packedXY,
                   originalPositions, positions, iteration, totalMovement>>
    /\ UNCHANGED notLayout

\* the region a descendant hangs under (regions do not nest)
regionOf(d) == CHOOSE n \in regions : isDescendantOf(d, n)

\* lines 845-876
ApplyPositions ==
    /\ lpc = "returned"
    /\ nodeXY' =
         [k \in DOMAIN nodeXY |->
            IF k \in regions
            THEN positions[k]
            ELSE LET n == regionOf(k)
                 IN [x |-> positions[n].x + (nodeXY[k].x - originalPositions[n].x),
                     y |-> positions[n].y + (nodeXY[k].y - originalPositions[n].y)]]
    /\ lpc' = "positioned"
    /\ UNCHANGED <<packWidth, packHeight, regionRadius, descParent, packedXY,
                   originalPositions, positions, iteration, totalMovement>>
    /\ UNCHANGED notLayout

-----------------------------------------------------------------------------
(* Inputs of the layout *)

PackSizes == {<<800, 600>>, <<720, 480>>}

Radii == {k * RadiusStepPx : k \in 0..MaxRadiusIdx}

\* packed coordinates, in pixels
PackedCoords == {0, 240}

XY(S) == [x : S, y : S]

\* family 1: any set of regions with any radii, a fixed packing, one leaf per region
RadiiInputs ==
    {[w |-> s[1], h |-> s[2], r |-> rr,
      parent |-> [d \in {"leaf of " \o n : n \in DOMAIN rr} |->
                    CHOOSE n \in DOMAIN rr : d = "leaf of " \o n],
      xy |-> [k \in DOMAIN rr \cup {"leaf of " \o n : n \in DOMAIN rr} |->
                [x |-> 300 * Res, y |-> 200 * Res]]] :
       s \in PackSizes,
       rr \in UNION {[S -> Radii] : S \in (SUBSET RegionNames) \ {{}}}}

LayoutInit(in) ==
    /\ packWidth = in.w
    /\ packHeight = in.h
    /\ regionRadius = in.r
    /\ descParent = in.parent
    /\ nodeXY = in.xy
    /\ packedXY = in.xy
    /\ originalPositions = <<>>
    /\ positions = <<>>
    /\ iteration = 0
    /\ totalMovement = 0
    /\ lpc = "start"

\* no element: the value of drawerContainer before createDrawer
Null == 0

\* no data
None == "none"

\* the chart right after initialiseChart: rendered once, interactions set up, the
\* timer of renderChart pending, no drawer
DrawerIdle ==
    /\ svgRect = TRUE
    /\ leafBound = TRUE
    /\ setupPending = 1
    /\ viewSize = 1
    /\ docDrawers = <<>>
    /\ docOverlays = <<>>
    /\ drawerContent = <<>>
    /\ drawerGeom = <<>>
    /\ drawerContainer = Null
    /\ closeTimers = <<>>
    /\ escBound = FALSE
    /\ wanted = None
    /\ openedOver = FALSE
    /\ closeAsked = FALSE

\* what a handler that is no toggle click leaves in ev
NoEvent == [op |-> "none", before |-> None, renders |-> 0, renderKey |-> None,
            settled |-> FALSE]

\* an svg without click handlers
noHandlers == [toggle |-> 0, leaf |-> 0]

\* the page is loaded: the interactions module is initialised (line 13 of the
\* interactions module), the first component is created (line 35 of the component)
\* and ngAfterViewInit has called initialiseChart, which awaits loadData
CompIdle ==
    /\ phase = "loading"
    /\ isDestroyed = FALSE
    /\ compKey = "landAreaKM2"
    /\ modKey = "landAreaKM2"
    /\ chartKey = None
    /\ toggleBound = FALSE
    /\ observing = FALSE
    /\ timers = <<>>
    /\ debounceTimer = 0
    /\ ev = NoEvent
    /\ notifications = 0
    /\ gapsOK = TRUE
    /\ sinceNotify = 0
    /\ resizeRuns = 0
    /\ ranAt = 0
    /\ svgContent = "empty"
    /\ handlers = noHandlers

\* the chart as the constructor leaves it (lines 75-93): no group, no nodes
chartNew == [group |-> FALSE, nodes |-> <<>>, viewBox |-> <<0, 0>>, toggle |-> None]

ChartIdle ==
    /\ chGroup = chartNew.group
    /\ chNodes = chartNew.nodes
    /\ chViewBox = chartNew.viewBox
    /\ chToggle = chartNew.toggle
    /\ chOp = "new"
    /\ chPrev = chartNew
    /\ docTooltips = 0

\* the label code at rest
TextIdle ==
    /\ fitCall = <<>>
    /\ lblName = <<>>
    /\ lblRadius = 0
    /\ lines = <<>>
    /\ wordIdx = 0
    /\ emitted = <<>>
    /\ tpc = "idle"

\* family 2: two regions of one radius, every packing of them and of a leaf with a
\* nested circle (depth 3) in it
PackedInputs ==
    {[w |-> 800, h |-> 600,
      r |-> [n \in {"Northern Europe", "Western Europe"} |-> RadiusStepPx],
      parent |-> [d \in {"leaf", "nested"} |->
                    IF d = "leaf" THEN "Northern Europe" ELSE "leaf"],
      xy |-> [k \in {"Northern Europe", "Western Europe", "leaf", "nested"} |->
                CASE k = "Northern Europe" -> [x |-> a.x * Res, y |-> a.y * Res]
                  [] k = "Western Europe"  -> [x |-> 400 * Res, y |-> b * Res]
                  [] k = "leaf"            -> [x |-> c.x * Res, y |-> c.y * Res]
                  [] k = "nested"          -> [x |-> (c.x + 2) * Res, y |-> e * Res]]] :
       a \in XY(PackedCoords), b \in PackedCoords, c \in XY(PackedCoords),
       e \in PackedCoords}

\* family 3: the four regions, each of radius 80, in an 800 by 600 container, with
\* one leaf per region
FourRegionsInput ==
    [w |-> 800, h |-> 600,
     r |-> [n \in RegionNames |-> 80],
     parent |-> [d \in {"leaf of " \o n : n \in RegionNames} |->
                   CHOOSE n \in RegionNames : d = "leaf of " \o n],
     xy |-> [k \in RegionNames \cup {"leaf of " \o n : n \in RegionNames} |->
               [x |-> 300 * Res, y |-> 200 * Res]]]

\* family 4: a region of the map next to a region the map does not name
UnknownRegionInputs ==
    {[w |-> 800, h |-> 600, r |-> rr,
      parent |-> [d \in {"leaf of " \o n : n \in DOMAIN rr} |->
                    CHOOSE n \in DOMAIN rr : d = "leaf of " \o n],
      xy |-> [k \in DOMAIN rr \cup {"leaf of " \o n : n \in DOMAIN rr} |->
                [x |-> 300 * Res, y |-> 200 * Res]]] :
       rr \in [{"Northern Europe", "Central Europe"} -> Radii]}

LayoutInputs == RadiiInputs \cup PackedInputs \cup {FourRegionsInput} \cup UnknownRegionInputs

InitLayout == (\E in \in LayoutInputs : LayoutInit(in)) /\ TextIdle /\ DrawerIdle /\ CompIdle /\ ChartIdle

NextLayout == Seed \/ SeedThrows \/ Iterate \/ LoopExit \/ ApplyPositions

SpecLayout == InitLayout /\ [][NextLayout]_vars

-----------------------------------------------------------------------------
(* Claims about the layout *)

Returned == lpc \in {"returned", "positioned"}

effectiveRadiusOf(n) == RadiusOf(n) + paddingDist * Res

FitsX(n) == LET b == quadrantBounds(quadrants[n])
            IN b.minX + effectiveRadiusOf(n) <= b.maxX - effectiveRadiusOf(n)
FitsY(n) == LET b == quadrantBounds(quadrants[n])
            IN b.minY + effectiveRadiusOf(n) <= b.maxY - effectiveRadiusOf(n)

InsideX(n) == LET b == quadrantBounds(quadrants[n])
              IN /\ b.minX + effectiveRadiusOf(n) <= positions[n].x
                 /\ positions[n].x <= b.maxX - effectiveRadiusOf(n)
InsideY(n) == LET b == quadrantBounds(quadrants[n])
              IN /\ b.minY + effectiveRadiusOf(n) <= positions[n].y
                 /\ positions[n].y <= b.maxY - effectiveRadiusOf(n)

\* C1 as stated: for every container size and every radius, the centre returned for a
\* region lies in its quadrant's bounds inset by radius + 5 on every side.
C1_InsideForEveryRadius ==
    Returned => \A n \in regions : InsideX(n) /\ InsideY(n)

\* C1, amended: the returned centre is never below min + r + 5 on either axis; it is
\* at most max - r - 5 on an axis where the inset bounds are not empty
\* (min + r + 5 <= max - r - 5), and on an axis where they are empty (the radius is
\* too large for the quadrant) it is exactly min + r + 5.
C1_InsideWhenItFits ==
    Returned =>
      \A n \in regions :
        LET b == quadrantBounds(quadrants[n])
        IN /\ IF FitsX(n) THEN InsideX(n)
                          ELSE positions[n].x = b.minX + effectiveRadiusOf(n)
           /\ IF FitsY(n) THEN InsideY(n)
                          ELSE positions[n].y = b.minY + effectiveRadiusOf(n)

\* C1 witness: the function has returned for a set of regions of which one is too
\* large for its quadrant and another was pushed away from its seed and fits
C1_Witness ==
    /\ Returned
    /\ \E n \in regions : ~FitsY(n)
    /\ \E n \in regions : FitsX(n) /\ FitsY(n) /\ positions[n] # seedOf(n)

Pairs == {p \in SUBSET regions : Cardinality(p) = 2}

Separated(n1, n2) ==
    Dist2(positions[n1], positions[n2])
      >= requiredDistance(n1, n2) * requiredDistance(n1, n2)

AllSeparated == \A n1, n2 \in regions : n1 # n2 => Separated(n1, n2)

\* the number of times the loop body has run when the function returns
iterationsRun == IF iteration < maxIterations THEN iteration + 1 ELSE maxIterations

\* C3 as stated: on return, every pair of regions is at least radius1 + radius2 + 30
\* apart, or the loop ran all 50 iterations.
C3_SeparatedOrCap ==
    Returned => AllSeparated \/ iterationsRun = maxIterations

\* C3, amended: on return, every pair is at least radius1 + radius2 + 30 apart, or
\* the loop ran all 50 iterations, or the loop stopped early because the total
\* movement of its last iteration was below 1 (the circles are held by the clamp).
C3_SeparatedOrCapOrStill ==
    Returned => \/ AllSeparated
                \/ iterationsRun = maxIterations
                \/ totalMovement < 1 * Res

\* C3 witness: the loop stopped before the cap with a pair still too close
C3_Witness ==
    /\ Returned
    /\ iterationsRun < maxIterations
    /\ iterationsRun > 1
    /\ ~AllSeparated

\* C2 as stated: after positionRegionCircles every descendant d of a region R is at
\* R's new centre plus (d's packed position minus R's packed centre), whatever the
\* packed positions are (0 included).
C2_RigidOffset ==
    lpc = "positioned" =>
      \A d \in Descendants :
        LET n == regionOf(d)
        IN /\ nodeXY[d].x = nodeXY[n].x + (packedXY[d].x - packedXY[n].x)
           /\ nodeXY[d].y = nodeXY[n].y + (packedXY[d].y - packedXY[n].y)

\* C19: the relaxation loop runs at most 50 iterations, goes on to a next iteration
\* only when the total displacement of the iteration just run was 1 or more, and
\* returns before the 50th iteration only at the end of an iteration whose total
\* displacement was below 1.
C19_StopsAtFirstStillIteration ==
    /\ iteration <= maxIterations
    /\ (lpc = "loop" /\ iteration > 0) => totalMovement >= 1 * Res
    /\ Returned => iterationsRun <= maxIterations
    /\ (Returned /\ iteration < maxIterations) => totalMovement < 1 * Res

\* C19 witness: the loop stopped before the cap, after iterations that moved circles
C19_Witness ==
    /\ lpc = "returned"
    /\ iteration >= 2
    /\ iteration < maxIterations
    /\ totalMovement < 1 * Res
    /\ \E n \in regions : positions[n] # seedOf(n)

\* the call is the one of the four regions of radius 80 in 800 by 600
IsFourRegions ==
    /\ packWidth = FourRegionsInput.w
    /\ packHeight = FourRegionsInput.h
    /\ regionRadius = FourRegionsInput.r

\* C13: for the four regions Northern, Southern, Eastern and Western Europe, each of
\* radius 80, in an 800 by 600 container, the centres calculateOptimalPositions
\* returns are pairwise at least 190 apart and each lies in its quadrant's bounds
\* inset by radius + 5.
C13_FourRegionsApartAndInside ==
    (Returned /\ IsFourRegions) =>
      /\ \A n1, n2 \in regions :
            n1 # n2 => Dist2(positions[n1], positions[n2]) >= (190 * Res) * (190 * Res)
      /\ \A n \in regions : InsideX(n) /\ InsideY(n)

\* C13 witness: calculateOptimalPositions has returned for the four regions
C13_Witness ==
    /\ lpc = "returned"
    /\ IsFourRegions
    /\ regions = RegionNames
    /\ DOMAIN positions = RegionNames

-----------------------------------------------------------------------------
(* Labels: getTextWidth, processWordForFit, addTextLabels                   *)
(*                                                                         *)
(* A string is a sequence of one-character strings.  A font size is a      *)
(* whole number of quarter pixels, a width a whole number of 1/80 pixels.  *)

\* the advance of a character in quarters of an em (a sans-serif face: narrow i,
\* full stop and space, wide W)
advance(c) == IF c = "W" THEN 4 ELSE 1

RECURSIVE advanceSum(_)
advanceSum(text) ==
    IF text = <<>> THEN 0 ELSE advance(Head(text)) + advanceSum(Tail(text))

\* getTextWidth (lines 794-802): context.measureText(text).width at fontSize
getTextWidth(text, fontSize) == fontSize * advanceSum(text) * 5

ellipsis == <<".", ".", ".">>

\* word.substring(0, i)
substring0(word, i) == SubSeq(word, 1, Min(i, Len(word)))

\* word.charAt(0): the empty string for the empty word
charAt0(word) == IF word = <<>> THEN <<>> ELSE <<word[1]>>

\* text.includes('...')
includesEllipsis(text) ==
    \E i \in 1..(Len(text) - 2) : text[i] = "." /\ text[i + 1] = "." /\ text[i + 2] = "."

\* a scan that tries the first character + '...' only
truncateShortFirst(word, i, maxWidth, fontSize) ==
    IF i <= 0 THEN word
    ELSE LET test == substring0(word, 1) \o ellipsis
         IN IF getTextWidth(test, fontSize) <= maxWidth THEN test ELSE word

\* the scan of lines 766-773, from i down to 1: the first prefix + '...' that fits,
\* or the word itself
RECURSIVE truncateFrom(_, _, _, _)
truncateFrom(word, i, maxWidth, fontSize) ==
    IF i <= 0 THEN word
    ELSE LET test == substring0(word, i) \o ellipsis
         IN IF getTextWidth(test, fontSize) <= maxWidth
            THEN test
            ELSE truncateFrom(word, i - 1, maxWidth, fontSize)

\* processWordForFit without the check of lines 776-782
processWordNoFallback(word, maxWidth, fontSize, radius, forceEllipses) ==
    IF ~forceEllipses /\ getTextWidth(word, fontSize) <= maxWidth
    THEN word
    ELSE truncateFrom(word, Len(word), maxWidth, fontSize)

\* processWordForFit (lines 750-785)
processWordForFit(word, maxWidth, fontSize, radius, forceEllipses) ==
    IF ~forceEllipses /\ getTextWidth(word, fontSize) <= maxWidth
    THEN word
    ELSE LET truncated == truncateFrom(word, Len(word), maxWidth, fontSize)
         IN IF getTextWidth(truncated, fontSize) > maxWidth
            THEN IF radius < 6 THEN <<>> ELSE charAt0(word) \o <<".", ".">>
            ELSE truncated

\* name.split(' ')
RECURSIVE splitFrom(_, _)
splitFrom(text, word) ==
    IF text = <<>> THEN <<word>>
    ELSE IF Head(text) = " " THEN <<word>> \o splitFrom(Tail(text), <<>>)
    ELSE splitFrom(Tail(text), Append(word, Head(text)))

split(text) == splitFrom(text, <<>>)

\* fontSize of line 664, in quarter pixels: Math.max(8, d.r / 4)
fontSizeOf(r) == Max(32, r)

\* maxWidth of line 665, in 1/80 pixels: d.r * 1.6
maxWidthOf(r) == 128 * r

words == split(lblName)

\* the test of the loop of line 681 with <= for <
wordLoopGuardLe(i, n, len) == i < n /\ len <= 2

\* the test of the loop of line 681
wordLoopGuard(i, n, len) == i < n /\ len < 2

\* the strings of up to n characters over alphabet A
Strings(A, n) == UNION {[1..k -> A] : k \in 0..n}

FitWords == Strings({"i", "W"}, MaxWordLen)
FitMaxWidths == {0, 640, 896, 1280, 2560, 5120}
FitFontSizes == {32, 40, 64}
FitRadii == {0, 5, 6, 7, 40}

LabelNames == Strings({"i", "W", " "}, MaxNameLen)
LabelRadii == {0, 5, 7, 10, 20, 40}

\* a direct call of processWordForFit
Fit ==
    /\ tpc = "idle"
    /\ \E word \in FitWords, maxWidth \in FitMaxWidths, fontSize \in FitFontSizes,
          radius \in FitRadii, forceEllipses \in BOOLEAN :
         fitCall' = [word |-> word, maxWidth |-> maxWidth, fontSize |-> fontSize,
                     radius |-> radius, forceEllipses |-> forceEllipses,
                     result |-> processWordForFit(word, maxWidth, fontSize, radius,
                                                  forceEllipses)]
    /\ tpc' = "fitted"
    /\ UNCHANGED <<lblName, lblRadius, lines, wordIdx, emitted>>
    /\ UNCHANGED notText

\* addTextLabels on one leaf, lines 664-679: a single word is written at once
LabelStart ==
    /\ tpc = "idle"
    /\ \E name \in LabelNames, r \in LabelRadii :
         /\ lblName' = name
         /\ lblRadius' = r
         /\ IF Len(split(name)) = 1
            THEN /\ emitted' = <<processWordForFit(split(name)[1], maxWidthOf(r),
                                                   fontSizeOf(r), r, FALSE)>>
                 /\ tpc' = "done"
            ELSE /\ emitted' = <<>>
                 /\ tpc' = "loop"
    /\ lines' = <<>>
    /\ wordIdx' = 0
    /\ UNCHANGED fitCall
    /\ UNCHANGED notText

\* one run of the body of the word loop, lines 681-700
LabelWord ==
    /\ tpc = "loop"
    /\ wordLoopGuard(wordIdx, Len(words), Len(lines))
    /\ LET word == words[wordIdx + 1]
           processedWord == processWordForFit(word, maxWidthOf(lblRadius),
                                              fontSizeOf(lblRadius), lblRadius, FALSE)
       IN IF includesEllipsis(processedWord) \/ processedWord = <<>>
          THEN /\ lines' = IF processedWord # <<>> THEN Append(lines, processedWord)
                                                   ELSE lines
               /\ wordIdx' = wordIdx
               /\ tpc' = "after"
          ELSE /\ lines' = Append(lines, processedWord)
               /\ wordIdx' = wordIdx + 1
               /\ tpc' = "loop"
    /\ UNCHANGED <<fitCall, lblName, lblRadius, emitted>>
    /\ UNCHANGED notText

\* the test of the word loop fails
LabelLoopEnd ==
    /\ tpc = "loop"
    /\ ~wordLoopGuard(wordIdx, Len(words), Len(lines))
    /\ tpc' = "after"
    /\ UNCHANGED <<fitCall, lblName, lblRadius, lines, wordIdx, emitted>>
    /\ UNCHANGED notText

\* lines 702-735: the trailing ellipsis, then one tspan per line
LabelFinish ==
    /\ tpc = "after"
    /\ LET n == Len(lines)
           final ==
             IF Len(words) > n /\ n = 2 /\ ~includesEllipsis(lines[n])
             THEN LET lastLine == lines[n]
                      withEllipses == lastLine \o ellipsis
                  IN IF getTextWidth(withEllipses, fontSizeOf(lblRadius))
                          <= maxWidthOf(lblRadius)
                     THEN [lines EXCEPT ![n] = withEllipses]
                     ELSE [lines EXCEPT ![n] =
                             processWordForFit(lastLine, maxWidthOf(lblRadius),
                                               fontSizeOf(lblRadius), lblRadius, TRUE)]
             ELSE lines
       IN /\ lines' = final
          /\ emitted' = final
    /\ tpc' = "done"
    /\ UNCHANGED <<fitCall, lblName, lblRadius, wordIdx>>
    /\ UNCHANGED notText

\* the layout at rest
LayoutIdle ==
    /\ packWidth = 0
    /\ packHeight = 0
    /\ regionRadius = <<>>
    /\ descParent = <<>>
    /\ nodeXY = <<>>
    /\ packedXY = <<>>
    /\ originalPositions = <<>>
    /\ positions = <<>>
    /\ iteration = 0
    /\ totalMovement = 0
    /\ lpc = "idle"

InitText == TextIdle /\ LayoutIdle /\ DrawerIdle /\ CompIdle /\ ChartIdle

NextText == Fit \/ LabelStart \/ LabelWord \/ LabelLoopEnd \/ LabelFinish

SpecText == InitText /\ [][NextText]_vars

-----------------------------------------------------------------------------
(* Claims about the labels *)

\* C4: the string processWordForFit returns measures at most maxWidth, or it is
\* empty and radius < 6, or it is the word's first character followed by '..'.
C4_FitsOrEmptyOrDegraded ==
    tpc = "fitted" =>
      \/ getTextWidth(fitCall.result, fitCall.fontSize) <= fitCall.maxWidth
      \/ (fitCall.radius < 6 /\ fitCall.result = <<>>)
      \/ fitCall.result = charAt0(fitCall.word) \o <<".", ".">>

\* C4 witness: a call that ended in the degraded first character + '..', wider than
\* maxWidth, with forceEllipses set
C4_Witness ==
    /\ tpc = "fitted"
    /\ fitCall.forceEllipses
    /\ fitCall.word # <<>>
    /\ fitCall.result = charAt0(fitCall.word) \o <<".", ".">>
    /\ getTextWidth(fitCall.result, fitCall.fontSize) > fitCall.maxWidth

\* C5: the label of a leaf never has more than 2 lines, while it is built and when
\* it is written.
C5_AtMostTwoLines == Len(lines) <= 2 /\ Len(emitted) <= 2

\* C5 witness: a name of three or more words, one of them empty (two spaces in a
\* row), written as two lines
C5_Witness ==
    /\ tpc = "done"
    /\ Len(words) >= 3
    /\ \E k \in 1..(Len(lblName) - 1) : lblName[k] = " " /\ lblName[k + 1] = " "
    /\ Len(emitted) = 2

\* what the word loop gets from processWordForFit for the j-th word of the name
processedOf(j) ==
    processWordForFit(words[j], maxWidthOf(lblRadius), fontSizeOf(lblRadius), lblRadius,
                      FALSE)

\* C14: in the multi-word label logic, once processWordForFit has returned something
\* else than the whole word for the j-th word, no later word is added: the lines
\* never number more than j.
C14_NoWordAfterUnfitWord ==
    Len(words) > 1 =>
      \A j \in 1..Len(words) : processedOf(j) # words[j] => Len(lines) <= j

\* C15: when the first character + '...' measures wider than maxWidth (and, with
\* forceEllipses false, the whole word does not fit either), processWordForFit returns
\* the empty string for radius < 6 and the first character followed by '..' otherwise.
C15_FallbackWhenNothingFits ==
    (/\ tpc = "fitted"
     /\ getTextWidth(charAt0(fitCall.word) \o ellipsis, fitCall.fontSize) > fitCall.maxWidth
     /\ (fitCall.forceEllipses
           \/ getTextWidth(fitCall.word, fitCall.fontSize) > fitCall.maxWidth))
      => fitCall.result = IF fitCall.radius < 6 THEN <<>>
                          ELSE charAt0(fitCall.word) \o <<".", ".">>

\* the j-th word of the name went into the lines whole
wholeWord(j) == words[j] # <<>> /\ processedOf(j) = words[j] /\ ~includesEllipsis(words[j])

\* C16: when two whole words fill the two lines and a word of the name remains
\* unplaced, the second line written is not the bare second word: it is that word +
\* '...' when this fits within maxWidth, and otherwise what processWordForFit returns
\* for it with forceEllipses set.
C16_SecondLineMarksTruncation ==
    (tpc = "done" /\ Len(words) > 2 /\ wholeWord(1) /\ wholeWord(2)) =>
      /\ Len(emitted) = 2
      /\ emitted[2] # words[2]
      /\ emitted[2] =
           IF getTextWidth(words[2] \o ellipsis, fontSizeOf(lblRadius)) <= maxWidthOf(lblRadius)
           THEN words[2] \o ellipsis
           ELSE processWordForFit(words[2], maxWidthOf(lblRadius), fontSizeOf(lblRadius),
                                  lblRadius, TRUE)

\* the result of the last direct call is the first k characters of the word + '...'
isPrefixWithEllipsis(k) == fitCall.result = substring0(fitCall.word, k) \o ellipsis

\* C18: when processWordForFit returns a non-empty prefix of the word + '...', that
\* string measures at most maxWidth and no longer prefix of the word + '...' does.
C18_LongestFittingPrefix ==
    tpc = "fitted" =>
      \A k \in 1..Len(fitCall.word) :
        isPrefixWithEllipsis(k) =>
          /\ getTextWidth(fitCall.result, fitCall.fontSize) <= fitCall.maxWidth
          /\ \A longer \in (k + 1)..Len(fitCall.word) :
                getTextWidth(substring0(fitCall.word, longer) \o ellipsis, fitCall.fontSize)
                  > fitCall.maxWidth

\* C18 witness: a word of three characters was cut to its first two + '...', and its
\* first character + '...' would have fitted as well
C18_Witness ==
    /\ tpc = "fitted"
    /\ Len(fitCall.word) = 3
    /\ isPrefixWithEllipsis(2)
    /\ ~fitCall.forceEllipses

-----------------------------------------------------------------------------
(* The side drawer: createDrawer, openDrawer, closeDrawer                   *)
(*                                                                         *)
(* An element is a positive number; a new element gets the least number no *)
(* reference (the document, drawerContainer, a pending timer) holds.       *)
(* Which element lies on top is decided by the stylesheet, which is not    *)
(* part of the code: a click may reach a leaf while an overlay is present. *)

Range(seq) == {seq[i] : i \in 1..Len(seq)}

RECURSIVE without(_, _)
\* selection.remove() of one element: a no-op when it is not in the document
without(seq, e) ==
    IF seq = <<>> THEN <<>>
    ELSE IF Head(seq) = e THEN without(Tail(seq), e)
    ELSE <<Head(seq)>> \o without(Tail(seq), e)

\* a createDrawer that leaves what it selects in the document
keepFirst(seq) == seq

\* d3.select(cls).remove(): the first match, if any, leaves the document
removeFirst(seq) == IF seq = <<>> THEN seq ELSE Tail(seq)

\* d3.select(cls).node(): the first match, or Null
firstOf(seq) == IF seq = <<>> THEN Null ELSE Head(seq)

restrict(f, S) == [k \in S |-> f[k]]

freshId(used) == CHOOSE i \in 1..(Cardinality(used) + 1) :
                    i \notin used /\ \A j \in 1..(i - 1) : j \in used

usedDrawers == Range(docDrawers) \cup {drawerContainer}
                 \cup {closeTimers[i].drawer : i \in 1..Len(closeTimers)}
usedOverlays == Range(docOverlays) \cup {closeTimers[i].overlay : i \in 1..Len(closeTimers)}

\* the document and drawerContainer as one value
drawerState == [drawers |-> docDrawers, overlays |-> docOverlays,
                content |-> drawerContent, geom |-> drawerGeom, dc |-> drawerContainer]

\* createDrawer (lines 338-400)
createDrawer(d) ==
    LET drawers1 == removeFirst(d.drawers)
        overlays1 == removeFirst(d.overlays)
        d1 == [d EXCEPT !.drawers = drawers1, !.overlays = overlays1,
                        !.content = restrict(@, Range(drawers1)),
                        !.geom = restrict(@, Range(drawers1))]
    IN IF ~svgRect THEN d1
       ELSE LET overlay == freshId(usedOverlays)
                drawer == freshId(usedDrawers)
            IN [d1 EXCEPT !.overlays = Append(@, overlay),
                          !.drawers = Append(@, drawer),
                          !.content = [k \in Range(drawers1) \cup {drawer} |->
                                         IF k = drawer THEN None ELSE d1.content[k]],
                          !.geom = [k \in Range(drawers1) \cup {drawer} |->
                                      IF k = drawer THEN viewSize ELSE d1.geom[k]],
                          !.dc = drawer]

\* populateDrawerContent (lines 480-535): the first .drawer-content of the document
populateDrawerContent(d, countryData) ==
    IF d.drawers = <<>> THEN d
    ELSE [d EXCEPT !.content[Head(d.drawers)] = countryData]

\* openDrawer (lines 408-424); line 423 throws when drawerContainer is still null,
\* after everything else is done
openDrawer(d, countryData) ==
    populateDrawerContent(IF d.dc = Null THEN createDrawer(d) ELSE d, countryData)

\* the timer closeDrawer sets (lines 461-472), with the elements it captured
closeTimerOf(d) == [drawer |-> d.dc, overlay |-> firstOf(d.overlays)]

\* the callback of line 468
closeTimerFired(d, timer) ==
    LET drawers1 == without(d.drawers, timer.drawer)
    IN [d EXCEPT !.drawers = drawers1,
                 !.overlays = without(@, timer.overlay),
                 !.content = restrict(@, Range(drawers1)),
                 !.geom = restrict(@, Range(drawers1)),
                 !.dc = Null]

\* updateDrawerDimensions (lines 541-568), for the size newSize
updateDrawerDimensions(d, newSize) ==
    IF d.overlays = <<>> \/ d.drawers = <<>> \/ ~svgRect THEN d
    ELSE [d EXCEPT !.geom[Head(d.drawers)] = newSize]

\* destroy (lines 215-222), as far as the document goes
destroyed(d) ==
    LET drawers1 == removeFirst(d.drawers)
    IN [d EXCEPT !.drawers = drawers1, !.overlays = removeFirst(@),
                 !.content = restrict(@, Range(drawers1)),
                 !.geom = restrict(@, Range(drawers1))]

SetDrawerState(d) ==
    /\ docDrawers' = d.drawers
    /\ docOverlays' = d.overlays
    /\ drawerContent' = d.content
    /\ drawerGeom' = d.geom
    /\ drawerContainer' = d.dc

Countries == {"France", "Malta"}

\* the data of a leaf: a country, or a record with neither country nor name
LeafData == Countries \cup {"unnamed"}

ViewSizes == {1, 2}

\* a click on a leaf that carries the handler of setupCountryClickInteractions
\* (lines 96-106), then onCountryClick and openDrawer
LeafClick ==
    /\ svgRect
    /\ leafBound
    /\ \E countryData \in LeafData :
         IF countryData \in Countries
         THEN /\ SetDrawerState(openDrawer(drawerState, countryData))
              /\ escBound' = (escBound \/ drawerContainer = Null)
              /\ wanted' = countryData
              /\ openedOver' = (docDrawers # <<>>)
              /\ closeAsked' = FALSE
         ELSE /\ UNCHANGED <<docDrawers, docOverlays, drawerContent, drawerGeom,
                             drawerContainer, escBound, wanted, closeAsked>>
              /\ openedOver' = FALSE
    /\ UNCHANGED <<svgRect, leafBound, setupPending, viewSize, closeTimers>>
    /\ UNCHANGED notDrawer

CloseControls == {"close button", "overlay", "Escape"}

\* a close request: the close button or the overlay is clicked, or Escape is pressed;
\* each ends in closeDrawer (lines 386-388, 399, 433-452, 458-473)
CloseRequest ==
    /\ Len(closeTimers) < MaxCloseTimers
    /\ \E control \in CloseControls :
         CASE control = "close button" -> docDrawers # <<>>
           [] control = "overlay" -> docOverlays # <<>>
           [] control = "Escape" -> escBound
    /\ closeTimers' = IF drawerContainer = Null THEN closeTimers
                      ELSE Append(closeTimers, closeTimerOf(drawerState))
    /\ wanted' = None
    /\ openedOver' = FALSE
    /\ closeAsked' = (closeAsked \/ docDrawers # <<>>)
    /\ UNCHANGED <<svgRect, leafBound, setupPending, viewSize, docDrawers, docOverlays,
                   drawerContent, drawerGeom, drawerContainer, escBound>>
    /\ UNCHANGED notDrawer

\* the oldest timer of closeDrawer fires
CloseTimerFire ==
    /\ closeTimers # <<>>
    /\ SetDrawerState(closeTimerFired(drawerState, Head(closeTimers)))
    /\ closeTimers' = Tail(closeTimers)
    /\ openedOver' = FALSE
    /\ UNCHANGED <<svgRect, leafBound, setupPending, viewSize, escBound, wanted, closeAsked>>
    /\ UNCHANGED notDrawer

\* a toggle click re-renders: render (lines 102-152) replaces the content of the svg,
\* renderChart sets the timer of line 99
Rerender ==
    /\ svgRect
    /\ leafBound
    /\ setupPending < MaxSetupTimers
    /\ svgRect' = TRUE
    /\ leafBound' = FALSE
    /\ setupPending' = setupPending + 1
    /\ openedOver' = FALSE
    /\ UNCHANGED <<viewSize, docDrawers, docOverlays, drawerContent, drawerGeom,
                   drawerContainer, closeTimers, escBound, wanted, closeAsked>>
    /\ UNCHANGED notDrawer

\* a timer of renderChart fires: setupInteractions binds the leaves of the svg
SetupTimerFire ==
    /\ setupPending > 0
    /\ setupPending' = setupPending - 1
    /\ leafBound' = svgRect
    /\ openedOver' = FALSE
    /\ UNCHANGED <<svgRect, viewSize, docDrawers, docOverlays, drawerContent, drawerGeom,
                   drawerContainer, closeTimers, escBound, wanted, closeAsked>>
    /\ UNCHANGED notDrawer

\* resize (lines 160-207): the container has a new size
ChartResize ==
    /\ svgRect
    /\ \E newSize \in ViewSizes \ {viewSize} :
         /\ viewSize' = newSize
         /\ SetDrawerState(updateDrawerDimensions(drawerState, newSize))
    /\ openedOver' = FALSE
    /\ UNCHANGED <<svgRect, leafBound, setupPending, closeTimers, escBound, wanted,
                   closeAsked>>
    /\ UNCHANGED notDrawer

\* destroy (lines 215-222)
ChartDestroy ==
    /\ svgRect
    /\ SetDrawerState(destroyed(drawerState))
    /\ svgRect' = FALSE
    /\ leafBound' = FALSE
    /\ wanted' = None
    /\ openedOver' = FALSE
    /\ UNCHANGED <<setupPending, viewSize, closeTimers, escBound, closeAsked>>
    /\ UNCHANGED notDrawer

InitDrawer == DrawerIdle /\ LayoutIdle /\ TextIdle /\ CompIdle /\ ChartIdle

NextDrawer ==
    \/ LeafClick
    \/ CloseRequest
    \/ CloseTimerFire
    \/ Rerender
    \/ SetupTimerFire
    \/ ChartResize
    \/ ChartDestroy

SpecDrawer == InitDrawer /\ [][NextDrawer]_vars

-----------------------------------------------------------------------------
(* Claims about the drawer *)

\* C6: the document never holds more than one drawer or more than one overlay, and
\* after a leaf click made while a drawer is in the document there is exactly one
\* drawer, showing the data of that click.
C6_OneDrawer ==
    /\ Len(docDrawers) <= 1
    /\ Len(docOverlays) <= 1
    /\ openedOver => /\ Len(docDrawers) = 1
                     /\ drawerContent[docDrawers[1]] = wanted

\* C6 witness: a leaf was clicked while the drawer was open and closing (a close timer
\* is pending): the one drawer of the document is the existing one, with the new data
C6_Witness ==
    /\ openedOver
    /\ Len(docDrawers) = 1
    /\ drawerContainer = docDrawers[1]
    /\ closeTimers # <<>>
    /\ wanted = "Malta"

\* C7: when no timer is pending any more, the last leaf click (with no close request
\* after it) has the panel in the document, showing its data.
C7_ClickShowsPanel ==
    (wanted # None /\ closeTimers = <<>>) =>
       /\ docDrawers # <<>>
       /\ drawerContent[docDrawers[1]] = wanted

\* C8: when no timer is pending any more, a close request made with the panel in the
\* document (and no open after it) has removed the panel and the overlay.
C8_CloseRemovesPanel ==
    (closeAsked /\ closeTimers = <<>>) => docDrawers = <<>> /\ docOverlays = <<>>

\* C20: while the chart is not destroyed, after every event (leaf click, close
\* request, firing of a 300 ms timer) drawerContainer is non-null exactly when a
\* drawer element is in the document.
C20_ContainerIffDrawer ==
    svgRect => ((drawerContainer # Null) <=> (docDrawers # <<>>))

-----------------------------------------------------------------------------
(* The component: toggle, render, resize debounce                           *)
(*                                                                         *)
(* Every timer of the component has a delay of 100 ms, so the timers fire   *)
(* in the order they were set.  Time advances in ticks; a timer that is due *)
(* fires before the next tick.  One component instance is followed at a     *)
(* time: the callbacks a destroyed instance leaves behind act on its own,   *)
(* cleared svg and are dropped when the next instance is created.           *)

otherKey(k) == IF k = "landAreaKM2" THEN "population" ELSE "landAreaKM2"

\* setTimeout(callback, 100): the new timer, with an id no one holds
newTimer(ts, kind) ==
    [kind |-> kind,
     id |-> freshId({ts[i].id : i \in 1..Len(ts)} \cup {debounceTimer}),
     left |-> TicksPerDelay]

RECURSIVE withoutTimer(_, _)
withoutTimer(ts, id) ==
    IF ts = <<>> THEN <<>>
    ELSE IF Head(ts).id = id THEN withoutTimer(Tail(ts), id)
    ELSE <<Head(ts)>> \o withoutTimer(Tail(ts), id)

\* a clearTimeout that clears nothing
clearNothing(ts, id) == ts

\* clearTimeout(id)
clearTimeout(ts, id) == withoutTimer(ts, id)

\* the component and the module as one value, for the handlers below
compState == [compKey |-> compKey, modKey |-> modKey, chartKey |-> chartKey,
              toggleBound |-> toggleBound, timers |-> timers, renders |-> 0,
              renderKey |-> None, svgContent |-> svgContent, handlers |-> handlers]

\* renderChart (lines 88-102): chart.render replaces the content of the svg (the new
\* toggle carries no handler), then the timer of setupInteractions is set
renderChart(c) ==
    [c EXCEPT !.chartKey = c.compKey,
              !.toggleBound = FALSE,
              !.svgContent = "chart",
              !.handlers = noHandlers,
              !.timers = Append(c.timers, newTimer(c.timers, "setup")),
              !.renders = c.renders + 1,
              !.renderKey = c.compKey]

\* onValueKeyChange (lines 179-184)
onValueKeyChange(c, newValueKey) ==
    IF c.compKey # newValueKey
    THEN renderChart([c EXCEPT !.compKey = newValueKey])
    ELSE c

\* handleToggleClick (lines 50-62 of the interactions module)
handleToggleClick(c) ==
    LET newValueKey == otherKey(c.modKey)
    IN onValueKeyChange([c EXCEPT !.modKey = newValueKey], newValueKey)

\* the metric a label of the toggle stands for (createToggle, lines 261-275)
labelKey(label) == IF label = "left" THEN "landAreaKM2" ELSE "population"

\* the click handlers of the labels (lines 33-43 of the interactions module)
labelClick(c, label) ==
    IF c.modKey # labelKey(label) THEN handleToggleClick(c) ELSE c

SetCompState(c) ==
    /\ compKey' = c.compKey
    /\ modKey' = c.modKey
    /\ chartKey' = c.chartKey
    /\ toggleBound' = c.toggleBound
    /\ timers' = c.timers
    /\ svgContent' = c.svgContent
    /\ handlers' = c.handlers

\* a resize notification has arrived
notified == notifications > 0

resizeVars == <<notifications, gapsOK, sinceNotify, resizeRuns, ranAt>>

\* selection.on('click', listener) on an element with n click listeners: the new
\* listener takes the place of the one registered under the same type
on(n) == 1

\* setupToggleInteractions and setupCountryClickInteractions on the svg
setupInteractions(h, content) ==
    IF content = "chart" THEN [toggle |-> on(h.toggle), leaf |-> on(h.leaf)] ELSE h

\* the pending timers of renderChart
setupTimers == {i \in 1..Len(timers) : timers[i].kind = "setup"}

\* a click on an element with n listeners calls each of them
RECURSIVE dispatch(_, _)
dispatch(c, n) == IF n = 0 THEN c ELSE dispatch(handleToggleClick(c), n - 1)

\* loadData resolves: the rest of initialiseChart (lines 49-61)
LoadDone ==
    /\ phase = "loading"
    /\ phase' = "live"
    /\ LET c == renderChart(compState)
       IN SetCompState([c EXCEPT !.toggleBound = TRUE,
                                 !.handlers = setupInteractions(c.handlers, c.svgContent)])
    /\ observing' = TRUE
    /\ ev' = NoEvent
    /\ UNCHANGED <<isDestroyed, debounceTimer>>
    /\ UNCHANGED resizeVars
    /\ UNCHANGED notComp

\* loadData rejects or transformData throws (lines 48-49): the catch of line 62 logs
LoadFail ==
    /\ phase = "loading"
    /\ phase' = "failed"
    /\ ev' = NoEvent
    /\ UNCHANGED <<isDestroyed, compKey, modKey, chartKey, toggleBound, observing, timers,
                   debounceTimer, svgContent, handlers>>
    /\ UNCHANGED resizeVars
    /\ UNCHANGED notComp

\* the first render throws (line 55): getTextWidth finds no 2d context (part_002 line
\* 798) while drawNodes labels the first leaf, after render has appended the rect, the
\* group, the node groups and their circles; the catch of line 62 logs
RenderFail ==
    /\ phase = "loading"
    /\ phase' = "failed"
    /\ svgContent' = "partial"
    /\ handlers' = noHandlers
    /\ ev' = NoEvent
    /\ UNCHANGED <<isDestroyed, compKey, modKey, chartKey, toggleBound, observing, timers,
                   debounceTimer>>
    /\ UNCHANGED resizeVars
    /\ UNCHANGED notComp

\* a click on the .toggle-click-area that carries the handler of line 28
ToggleAreaClick ==
    /\ phase = "live"
    /\ ~isDestroyed
    /\ toggleBound
    /\ LET c == dispatch(compState, handlers.toggle)
       IN /\ SetCompState(c)
          /\ ev' = [op |-> "clickArea", before |-> compKey, renders |-> c.renders,
                    renderKey |-> c.renderKey, settled |-> (setupTimers = {})]
    /\ UNCHANGED <<phase, isDestroyed, observing, debounceTimer>>
    /\ UNCHANGED resizeVars
    /\ UNCHANGED notComp

\* a click on a label that carries the handler of line 33 or 39
ToggleLabelClick ==
    /\ phase = "live"
    /\ ~isDestroyed
    /\ toggleBound
    /\ \E label \in {"left", "right"} :
         LET c == labelClick(compState, label)
         IN /\ SetCompState(c)
            /\ ev' = [op |-> label, before |-> compKey, renders |-> c.renders,
                      renderKey |-> c.renderKey, settled |-> (setupTimers = {})]
    /\ UNCHANGED <<phase, isDestroyed, observing, debounceTimer>>
    /\ UNCHANGED resizeVars
    /\ UNCHANGED notComp

\* the oldest timer is a timer of renderChart and is due: setupInteractions
\* (lines 70-82) binds the toggle the svg holds
SetupFire ==
    /\ timers # <<>>
    /\ Head(timers).kind = "setup"
    /\ Head(timers).left = 0
    /\ timers' = Tail(timers)
    /\ toggleBound' = (chartKey # None)
    /\ handlers' = setupInteractions(handlers, svgContent)
    /\ ev' = NoEvent
    /\ UNCHANGED <<phase, isDestroyed, compKey, modKey, chartKey, observing, debounceTimer,
                   svgContent>>
    /\ UNCHANGED resizeVars
    /\ UNCHANGED notComp

\* the ResizeObserver calls back: debounceResize (lines 135-144)
ResizeNotify ==
    /\ observing
    /\ LET cleared == IF debounceTimer # 0 THEN clearTimeout(timers, debounceTimer)
                                          ELSE timers
           timer == newTimer(cleared, "resize")
       IN /\ timers' = Append(cleared, timer)
          /\ debounceTimer' = timer.id
    /\ notifications' = Min(2, notifications + 1)
    /\ gapsOK' = (gapsOK /\ (notified => sinceNotify < TicksPerDelay))
    /\ sinceNotify' = 0
    /\ ev' = NoEvent
    /\ UNCHANGED <<phase, isDestroyed, compKey, modKey, chartKey, toggleBound, observing,
                   resizeRuns, ranAt, svgContent, handlers>>
    /\ UNCHANGED notComp

\* the oldest timer is a timer of debounceResize and is due: handleResize
\* (lines 149-154) calls chart.resize
ResizeFire ==
    /\ timers # <<>>
    /\ Head(timers).kind = "resize"
    /\ Head(timers).left = 0
    /\ timers' = Tail(timers)
    /\ resizeRuns' = Min(2, resizeRuns + 1)
    /\ ranAt' = sinceNotify
    /\ ev' = NoEvent
    /\ UNCHANGED <<phase, isDestroyed, compKey, modKey, chartKey, toggleBound, observing,
                   debounceTimer, notifications, gapsOK, sinceNotify, svgContent, handlers>>
    /\ UNCHANGED notComp

\* time passes: no timer is due
Tick ==
    /\ \A i \in 1..Len(timers) : timers[i].left > 0
    /\ timers # <<>> \/ (notified /\ sinceNotify <= TicksPerDelay)
    /\ timers' = [i \in 1..Len(timers) |-> [timers[i] EXCEPT !.left = @ - 1]]
    /\ sinceNotify' = Min(TicksPerDelay + 1, sinceNotify + 1)
    /\ ev' = NoEvent
    /\ UNCHANGED <<phase, isDestroyed, compKey, modKey, chartKey, toggleBound, observing,
                   debounceTimer, notifications, gapsOK, resizeRuns, ranAt, svgContent,
                   handlers>>
    /\ UNCHANGED notComp

\* ngOnDestroy: cleanup (lines 160-172); chart.destroy clears the svg
Destroy ==
    /\ ~isDestroyed
    /\ isDestroyed' = TRUE
    /\ timers' = IF debounceTimer # 0 THEN clearTimeout(timers, debounceTimer) ELSE timers
    /\ observing' = FALSE
    /\ chartKey' = None
    /\ toggleBound' = FALSE
    /\ svgContent' = "empty"
    /\ handlers' = noHandlers
    /\ ev' = NoEvent
    /\ UNCHANGED <<phase, compKey, modKey, debounceTimer>>
    /\ UNCHANGED resizeVars
    /\ UNCHANGED notComp

\* the host creates the component again: a new instance (line 35), a new svg, and
\* ngAfterViewInit; the interactions module keeps its state
Create ==
    /\ isDestroyed
    /\ phase' = "loading"
    /\ isDestroyed' = FALSE
    /\ compKey' = "landAreaKM2"
    /\ chartKey' = None
    /\ toggleBound' = FALSE
    /\ observing' = FALSE
    /\ timers' = <<>>
    /\ debounceTimer' = 0
    /\ ev' = NoEvent
    /\ notifications' = 0
    /\ gapsOK' = TRUE
    /\ sinceNotify' = 0
    /\ resizeRuns' = 0
    /\ ranAt' = 0
    /\ svgContent' = "empty"
    /\ handlers' = noHandlers
    /\ UNCHANGED modKey
    /\ UNCHANGED notComp

InitComponent == CompIdle /\ LayoutIdle /\ TextIdle /\ DrawerIdle /\ ChartIdle

NextComponent ==
    \/ LoadDone
    \/ LoadFail
    \/ RenderFail
    \/ ToggleAreaClick
    \/ ToggleLabelClick
    \/ SetupFire
    \/ ResizeNotify
    \/ ResizeFire
    \/ Tick
    \/ Destroy
    \/ Create

SpecComponent == InitComponent /\ [][NextComponent]_vars

-----------------------------------------------------------------------------
(* Claims about the component *)

C12_FailedInitEmptyAndInert ==
    (phase = "failed" /\ ~isDestroyed) =>
      /\ svgContent = "empty"
      /\ handlers = noHandlers
      /\ ~observing

\* when no timer of renderChart is pending, the toggle click area and each leaf of
\* the svg carry one click handler
oneHandlerEach ==
    (phase = "live" /\ ~isDestroyed /\ setupTimers = {}) =>
      handlers.toggle = 1 /\ handlers.leaf = 1

C21_NothingRunsAfterDestroy ==
    [][(isDestroyed /\ isDestroyed') =>
         /\ svgContent' = svgContent
         /\ handlers' = handlers
         /\ Cardinality(setupTimers') = Cardinality(setupTimers)
         /\ observing' = observing
         /\ resizeRuns' = resizeRuns]_vars

\* C22: the currentValueKey of the interactions module equals the currentValueKey
\* of the component that is alive, after any sequence of toggle clicks, renders,
\* destroys and re-creations.
C22_ModuleKeyIsComponentKey == (phase = "live" /\ ~isDestroyed) => modKey = compKey

resizeTimers == {i \in 1..Len(timers) : timers[i].kind = "resize"}

\* C10: at most one debounce timer is pending at any moment; and as long as every
\* resize notification came less than 100 ms after the one before, handleResize has
\* run at most once, not before 100 ms after the last notification, and has run once
\* when more than 100 ms have passed since the last notification.
C10_OneResizePerBurst ==
    /\ Cardinality(resizeTimers) <= 1
    /\ (notified /\ gapsOK /\ ~isDestroyed) =>
         /\ resizeRuns <= 1
         /\ resizeRuns = 1 => (ranAt = TicksPerDelay /\ sinceNotify >= TicksPerDelay)
         /\ sinceNotify > TicksPerDelay => resizeRuns = 1

\* C10 witness: several notifications came in a burst, and handleResize has run once
C10_Witness ==
    /\ notifications = 2
    /\ gapsOK
    /\ ~isDestroyed
    /\ resizeRuns = 1
    /\ ranAt = TicksPerDelay

-----------------------------------------------------------------------------
(* The chart's hierarchy: render, resize, clear                             *)
(*                                                                         *)
(* d3.hierarchy and d3.pack are a library: of the packing the model keeps  *)
(* that x, y and r of a node are set from the size packed for and from the *)
(* node's value, and nothing else of the node is written.                  *)

\* a field a record does not have
Undefined == -1

\* two data sets (NodeData trees): node id -> its record; a leaf carries the metrics
\* it has; node 0 is the root
DataSets ==
    {(0 :> [name |-> "Europe", parent |-> Undefined, leaf |-> FALSE, landAreaKM2 |-> Undefined,
            population |-> Undefined]
      @@ 1 :> [name |-> "Northern Europe", parent |-> 0, leaf |-> FALSE,
               landAreaKM2 |-> Undefined, population |-> Undefined]
      @@ 2 :> [name |-> "Norway", parent |-> 1, leaf |-> TRUE, landAreaKM2 |-> 3,
               population |-> 1]
      @@ 3 :> [name |-> "Sweden", parent |-> 1, leaf |-> TRUE, landAreaKM2 |-> 4,
               population |-> 2]),
     (0 :> [name |-> "Europe", parent |-> Undefined, leaf |-> FALSE, landAreaKM2 |-> Undefined,
            population |-> Undefined]
      @@ 1 :> [name |-> "Southern Europe", parent |-> 0, leaf |-> FALSE,
               landAreaKM2 |-> Undefined, population |-> Undefined]
      @@ 2 :> [name |-> "Malta", parent |-> 1, leaf |-> TRUE, landAreaKM2 |-> 1,
               population |-> Undefined])}

\* d[valueKey] ?? 0 (line 128)
metricOf(d, valueKey) ==
    LET v == IF valueKey = "population" THEN d.population ELSE d.landAreaKM2
    IN IF v = Undefined THEN 0 ELSE v

\* node.value after hierarchy.sum (lines 126-128): the sum over the leaves under k
RECURSIVE valueOf(_, _, _)
valueOf(data, k, valueKey) ==
    IF data[k].leaf THEN metricOf(data[k], valueKey)
    ELSE SumOver({c \in DOMAIN data : data[c].parent = k},
                 [c \in {c \in DOMAIN data : data[c].parent = k} |->
                    valueOf(data, c, valueKey)])

\* rectWidth and rectHeight (lines 106-107, 162-163)
rectOf(width, height) ==
    <<(Min(width, height) * 12) \div 10, (Min(width, height) * 8) \div 10>>

\* a placing that also writes the value of each node
placedAndResummed(nodes, rect) ==
    [k \in DOMAIN nodes |->
       [nodes[k] EXCEPT !.x = (rect[1] * (k + 1)) \div (Cardinality(DOMAIN nodes) + 1),
                        !.y = rect[2] \div 2,
                        !.r = (rect[2] * nodes[k].value) \div 20,
                        !.value = nodes[k].r]]

\* pack(root) and positionRegionCircles (lines 131-139, 171-183): x, y and r of every
\* node are written
placed(nodes, rect) ==
    [k \in DOMAIN nodes |->
       [nodes[k] EXCEPT !.x = (rect[1] * (k + 1)) \div (Cardinality(DOMAIN nodes) + 1),
                        !.y = rect[2] \div 2,
                        !.r = (rect[2] * nodes[k].value) \div 20]]

chartState == [group |-> chGroup, nodes |-> chNodes, viewBox |-> chViewBox,
               toggle |-> chToggle]

\* clear (lines 209-213): the content of the svg goes, the attributes of the svg stay
clear(c) == [c EXCEPT !.group = FALSE, !.nodes = <<>>, !.toggle = None]

\* render (lines 102-152)
render(c, data, width, height, valueKey) ==
    LET rect == rectOf(width, height)
        fresh == [k \in DOMAIN data |->
                    [data |-> data[k], value |-> valueOf(data, k, valueKey),
                     parent |-> data[k].parent, x |-> 0, y |-> 0, r |-> 0]]
    IN [clear(c) EXCEPT !.viewBox = rect, !.nodes = placed(fresh, rect),
                        !.group = TRUE, !.toggle = valueKey]

\* resize (lines 160-207)
resize(c, width, height) ==
    LET rect == rectOf(width, height)
        c1 == [c EXCEPT !.viewBox = rect]
    IN IF ~c.group \/ c.nodes = <<>> THEN c1
       ELSE [c1 EXCEPT !.nodes = placed(c.nodes, rect)]

SetChartState(c, op) ==
    /\ chGroup' = c.group
    /\ chNodes' = c.nodes
    /\ chViewBox' = c.viewBox
    /\ chToggle' = c.toggle
    /\ chOp' = op
    /\ chPrev' = chartState

\* the widths and heights getSvgDimensions returns
SvgSides == {400, 600, 800}

\* the tooltip creation of addNodeHoverEffects (lines 147-148 of the interactions
\* module), which drawNodes calls on every render (line 632): body gets one more div
addNodeHoverEffects(n) == n + 1

\* destroy (lines 215-222): the toggle, the first drawer and overlay, then clear
destroy(c) == clear(c)

ChRender ==
    /\ docTooltips < MaxTooltips
    /\ \E data \in DataSets, width \in SvgSides, height \in SvgSides,
          valueKey \in {"landAreaKM2", "population"} :
         SetChartState(render(chartState, data, width, height, valueKey), "render")
    /\ docTooltips' = addNodeHoverEffects(docTooltips)
    /\ UNCHANGED notChart

ChResize ==
    /\ \E width \in SvgSides, height \in SvgSides :
         SetChartState(resize(chartState, width, height), "resize")
    /\ UNCHANGED docTooltips
    /\ UNCHANGED notChart

ChClear ==
    /\ SetChartState(clear(chartState), "clear")
    /\ UNCHANGED docTooltips
    /\ UNCHANGED notChart

ChDestroy ==
    /\ SetChartState(destroy(chartState), "destroy")
    /\ UNCHANGED docTooltips
    /\ UNCHANGED notChart

InitChart == ChartIdle /\ LayoutIdle /\ TextIdle /\ DrawerIdle /\ CompIdle

NextChart == ChRender \/ ChResize \/ ChClear \/ ChDestroy

SpecChart == InitChart /\ [][NextChart]_vars

-----------------------------------------------------------------------------
(* Claims about the hierarchy *)

\* a node without its x, y and r
frameOf(node) == [data |-> node.data, value |-> node.value, parent |-> node.parent]

C11_WitnessCleared ==
    /\ chOp = "resize"
    /\ ~chPrev.group
    /\ chViewBox # chPrev.viewBox
    /\ chPrev.viewBox # chartNew.viewBox

\* C23: after any sequence of renders, clears and destroys, the body of the document
\* holds at most one tooltip element of addNodeHoverEffects.
C23_AtMostOneTooltip == docTooltips <= 1

\* C24: positionRegionCircles raises no error for any set of region circles, a region
\* whose name is no key of the quadrants map included, and every region circle passed
\* to calculateOptimalPositions has an entry in the returned positions map.
C24_NoThrowAndAllPlaced ==
    /\ lpc # "threw"
    /\ Returned => DOMAIN positions = regions

====
